---- MODULE Spec2Model ----
(***************************************************************************)
(* A model of src/1B.py: the PDF outline extractor, the title resolver,    *)
(* the sectionizer, the semantic ranker and main's document loop.          *)
(*                                                                         *)
(* Encodings.  A text is a sequence of one-character strings.  A style is  *)
(* the pair <<rounded size, bold>>.  A heading level "Hn" is the integer   *)
(* n.  A bounding box is <<x0, y0, x1, y1>>; Python's None is the empty     *)
(* tuple.  The PDF decoder and the embedding model are inputs: what they   *)
(* return is drawn in the initial state.                                   *)
(***************************************************************************)
EXTENDS Integers, Sequences, FiniteSets, TLC

VARIABLES
    pc,             \* position of the running operation
    \* ---- PDFOutlineExtractor.get_outline
    toc,            \* self.doc.get_toc(): sequence of [level, text, page]
    docBlocks,      \* the decoder's text blocks, in document order
    title,          \* the title _extract_title returned
    all_blocks,     \* get_outline: all_blocks
    body_style,     \* get_outline: body_style
    heading_blocks, \* get_outline: heading_blocks
    style_to_level, \* get_outline: style_to_level
    outline,        \* the "outline" of the returned dict / self.outline
    \* ---- PDFOutlineExtractor._extract_title
    meta_title,     \* self.doc.metadata.get("title", "")
    page_count,     \* self.doc.page_count
    top_lines,      \* lines of the top 40% of page 1, each a sequence of spans
    title_src,      \* which return statement of _extract_title produced title
    \* ---- DocumentSectionizer.get_sections
    page_heights,   \* self.doc[p].rect.height, by 0-based page + 1
    sec_i,          \* loop index i (1-based)
    sections,       \* sections, with the clip boundaries each was cut by
    \* ---- SemanticRanker.rank_sections
    sims,           \* cosine similarity of the query with each content
    all_sections,   \* the list handed to rank_sections
    ranked,         \* what rank_sections returned
    rank_runs,      \* how many times rank_sections has run
    \* ---- main
    documents,      \* per configured document, what processing it does
    config_ok,      \* the input JSON can be read
    model_ok,       \* SentenceTransformer(model_path) loads
    doc_i,          \* loop position in pdf_paths (1-based)
    main_sections,  \* main: all_sections
    opened,         \* documents the decoder was asked to open, in order
    output          \* the output records written, in order

vars == <<pc, toc, docBlocks, title, all_blocks, body_style, heading_blocks,
          style_to_level, outline, meta_title, page_count, top_lines,
          title_src, page_heights, sec_i, sections, sims, all_sections,
          ranked, rank_runs, documents, config_ok, model_ok, doc_i,
          main_sections, opened, output>>

outlineVars == <<toc, docBlocks, title, all_blocks, body_style,
                 heading_blocks, style_to_level, outline>>
titleVars == <<meta_title, page_count, top_lines, title_src>>
sectionVars == <<page_heights, sec_i, sections>>
rankVars == <<sims, all_sections, ranked, rank_runs>>
mainVars == <<documents, config_ok, model_ok, doc_i, main_sections, opened,
              output>>

None == <<>>

(***************************************************************************)
(* Text: Python's str.strip, str.split, ' '.join and the regular           *)
(* expressions of the source, computed character by character.             *)
(***************************************************************************)
Digits == {"0", "1", "2", "3", "4", "5", "6", "7", "8", "9"}
LowerLetters == {"a", "b", "c", "d", "e", "f", "g", "h", "i", "j", "k", "l",
                 "m", "n", "o", "p", "q", "r", "s", "t", "u", "v", "w", "x",
                 "y", "z"}
UpperLetters == {"A", "B", "C", "D", "E", "F", "G", "H", "I", "J", "K", "L",
                 "M", "N", "O", "P", "Q", "R", "S", "T", "U", "V", "W", "X",
                 "Y", "Z"}

IsDigit(c) == c \in Digits
IsAlpha(c) == c \in LowerLetters \cup UpperLetters
IsSpace(c) == c \in {" ", "\n", "\t"}

\* re.search('[a-zA-Z]', s)
HasAlpha(s) == \E i \in 1..Len(s) : IsAlpha(s[i])

RECURSIVE LStrip(_)
LStrip(s) == IF s # <<>> /\ IsSpace(Head(s)) THEN LStrip(Tail(s)) ELSE s

RECURSIVE RStrip(_)
RStrip(s) ==
    IF s # <<>> /\ IsSpace(s[Len(s)]) THEN RStrip(SubSeq(s, 1, Len(s) - 1))
    ELSE s

\* str.strip()
Strip(s) == RStrip(LStrip(s))

\* the first whitespace-free run of s, s having no leading whitespace
RECURSIVE FirstWord(_)
FirstWord(s) ==
    IF s = <<>> \/ IsSpace(Head(s)) THEN <<>>
    ELSE <<Head(s)>> \o FirstWord(Tail(s))

\* str.split(): the maximal whitespace-free runs, in order
RECURSIVE Split(_)
Split(s) ==
    LET t == LStrip(s)
        w == FirstWord(t)
    IN  IF t = <<>> THEN <<>>
        ELSE <<w>> \o Split(SubSeq(t, Len(w) + 1, Len(t)))

\* ' '.join(words)
RECURSIVE Join(_)
Join(words) ==
    IF words = <<>> THEN <<>>
    ELSE IF Len(words) = 1 THEN Head(words)
    ELSE Head(words) \o <<" ">> \o Join(Tail(words))

\* ' '.join(text.split())
Normalize(s) == Join(Split(s))

\* re.search(r'\.{4,}', s)
LeaderDots == 4
HasLeaderDots(s) ==
    \E i \in 1..Len(s) :
        /\ i + LeaderDots - 1 <= Len(s)
        /\ \A k \in 0..(LeaderDots - 1) : s[i + k] = "."

\* text.endswith(('.', ',', ';', ':'))
EndsLikeSentence(s) == s # <<>> /\ s[Len(s)] \in {".", ",", ";", ":"}

\* the characters of the class [...*-] of the list-item pattern: the bullet
\* glyph (written "^" here), the asterisk and the hyphen
BulletChars == {"^", "*", "-"}

\* number of leading characters of s that satisfy [a-zA-Z\d]
RECURSIVE LeadingAlnum(_)
LeadingAlnum(s) ==
    IF s # <<>> /\ (IsAlpha(Head(s)) \/ IsDigit(Head(s)))
    THEN 1 + LeadingAlnum(Tail(s)) ELSE 0

\* re.match(r'^\s*([...*-]|[a-zA-Z\d]+\))\s+', s)
IsListItem(s) ==
    LET t == LStrip(s)
        n == LeadingAlnum(t)
    IN  \/ /\ Len(t) >= 2
           /\ t[1] \in BulletChars
           /\ IsSpace(t[2])
        \/ /\ n >= 1
           /\ Len(t) >= n + 2
           /\ t[n + 1] = ")"
           /\ IsSpace(t[n + 2])

\* number of leading digits of s
RECURSIVE LeadingDigits(_)
LeadingDigits(s) ==
    IF s # <<>> /\ IsDigit(Head(s)) THEN 1 + LeadingDigits(Tail(s)) ELSE 0

\* length of the longest prefix of s of the form (\.\d+)*
RECURSIVE DotGroupsLen(_)
DotGroupsLen(s) ==
    IF s # <<>> /\ Head(s) = "." /\ LeadingDigits(Tail(s)) >= 1
    THEN LET n == 1 + LeadingDigits(Tail(s))
         IN  n + DotGroupsLen(SubSeq(s, n + 1, Len(s)))
    ELSE 0

\* group(1) of list_item_pattern = re.compile(r'^\s*(\d+(\.\d+)*)\s+') on s,
\* or <<>> when the pattern does not match (a match is never empty).  Both
\* repetitions are greedy and a shorter repetition is followed by "." or a
\* digit, never by whitespace, so the pattern matches iff the longest such
\* prefix precedes whitespace.
NumericPrefix(s) ==
    LET t == LStrip(s)
        d == LeadingDigits(t)
        g == d + DotGroupsLen(SubSeq(t, d + 1, Len(t)))
    IN  IF d >= 1 /\ g < Len(t) /\ IsSpace(t[g + 1]) THEN SubSeq(t, 1, g)
        ELSE <<>>

\* str.count('.')
RECURSIVE CountDots(_)
CountDots(s) ==
    IF s = <<>> THEN 0
    ELSE (IF Head(s) = "." THEN 1 ELSE 0) + CountDots(Tail(s))

\* s repeated n times
RECURSIVE Repeat(_, _)
Repeat(s, n) == IF n = 0 THEN <<>> ELSE s \o Repeat(s, n - 1)


(***************************************************************************)
(* PDFOutlineExtractor: the passes of get_outline as operators.            *)
(***************************************************************************)
\* Pass 1, _get_text_blocks.  A decoder block arrives with the text its spans
\* concatenate to (each span followed by a space) and with the style most of
\* its spans have; blocks without text or without a letter are dropped.
TextBlock(raw) ==
    [text |-> Strip(raw.text), style |-> raw.style, bbox |-> raw.bbox,
     page_num |-> raw.page_num, num_lines |-> raw.num_lines,
     num_words |-> Len(Split(raw.text))]

RECURSIVE GetTextBlocks(_)
GetTextBlocks(raws) ==
    IF raws = <<>> THEN <<>>
    ELSE LET raw == Head(raws)
         IN  IF Strip(raw.text) = <<>> \/ ~HasAlpha(raw.text)
             THEN GetTextBlocks(Tail(raws))
             ELSE <<TextBlock(raw)>> \o GetTextBlocks(Tail(raws))

\* the thresholds of a "substantial" block
BodyMinLines == 2
BodyMinWords == 20

IsSubstantial(block) ==
    block.num_lines > BodyMinLines \/ block.num_words > BodyMinWords

\* the keys of a dict or Counter filled from xs, in insertion order
RECURSIVE KeysInOrder(_)
KeysInOrder(xs) ==
    IF xs = <<>> THEN <<>>
    ELSE LET rest == KeysInOrder(SubSeq(xs, 1, Len(xs) - 1))
             x == xs[Len(xs)]
         IN  IF \E i \in 1..Len(rest) : rest[i] = x THEN rest
             ELSE Append(rest, x)

\* max(keys, key=f): the first key, in order, with the largest value
RECURSIVE FirstMax(_, _)
FirstMax(keys, f) ==
    IF Len(keys) = 1 THEN keys[1]
    ELSE LET m == FirstMax(SubSeq(keys, 1, Len(keys) - 1), f)
             k == keys[Len(keys)]
         IN  IF f[k] > f[m] THEN k ELSE m

RECURSIVE SumWords(_, _)
SumWords(blocks, style) ==
    IF blocks = <<>> THEN 0
    ELSE (IF Head(blocks).style = style THEN Head(blocks).num_words ELSE 0)
         + SumWords(Tail(blocks), style)

RECURSIVE CountStyle(_, _)
CountStyle(blocks, style) ==
    IF blocks = <<>> THEN 0
    ELSE (IF Head(blocks).style = style THEN 1 ELSE 0)
         + CountStyle(Tail(blocks), style)

StylesOf(blocks) == [i \in 1..Len(blocks) |-> blocks[i].style]

\* a slip in line 66: += 1, the blocks counted instead of their words
FindBodyStyleByBlocks(blocks) ==
    LET substantial == SelectSeq(blocks, IsSubstantial)
        keys == KeysInOrder(StylesOf(substantial))
        style_counts ==
            [k \in {keys[i] : i \in 1..Len(keys)} |->
                CountStyle(substantial, k)]
        all_keys == KeysInOrder(StylesOf(blocks))
        style_freq ==
            [k \in {all_keys[i] : i \in 1..Len(all_keys)} |->
                CountStyle(blocks, k)]
    IN  IF keys = <<>>
        THEN IF all_keys = <<>> THEN None ELSE FirstMax(all_keys, style_freq)
        ELSE FirstMax(keys, style_counts)

\* Pass 2, _find_body_style
FindBodyStyle(blocks) ==
    LET substantial == SelectSeq(blocks, IsSubstantial)
        keys == KeysInOrder(StylesOf(substantial))
        style_word_counts ==
            [k \in {keys[i] : i \in 1..Len(keys)} |-> SumWords(substantial, k)]
        all_keys == KeysInOrder(StylesOf(blocks))
        style_freq ==
            [k \in {all_keys[i] : i \in 1..Len(all_keys)} |->
                CountStyle(blocks, k)]
    IN  IF keys = <<>>
        THEN IF all_keys = <<>> THEN None ELSE FirstMax(all_keys, style_freq)
        ELSE FirstMax(keys, style_word_counts)

\* the limits of a heading candidate
HeadingMaxWords == 30
HeadingMaxLines == 3

\* the body of the loop over all_blocks: whether block becomes a heading block
IsHeadingBlock(block, body) ==
    /\ ~(block.num_words > HeadingMaxWords \/ block.num_lines > HeadingMaxLines)
    /\ \/ block.style[1] > body[1]
       \/ block.style[1] = body[1] /\ block.style[2] /\ ~body[2]
    /\ LET text == Strip(block.text)
       IN  /\ ~(HasLeaderDots(text) \/ EndsLikeSentence(text))
           /\ ~IsListItem(text)

FilterHeadingBlocks(blocks, body) ==
    SelectSeq(blocks, LAMBDA b : IsHeadingBlock(b, body))

\* level_map = ['H1', 'H2', 'H3', 'H4']
level_map == <<1, 2, 3, 4>>

\* sorted(sizes, reverse=True)
RECURSIVE SortedDesc(_)
SortedDesc(S) ==
    IF S = {} THEN <<>>
    ELSE LET m == CHOOSE x \in S : \A y \in S : y <= x
         IN  <<m>> \o SortedDesc(S \ {m})

\* a slip in lines 115-127: one level per style, bold before plain, instead
\* of one level per size
StyleToLevelPerStyle(blocks) ==
    LET heading_styles == {blocks[i].style : i \in 1..Len(blocks)}
        Order(st) ==
            1 + Cardinality({o \in heading_styles :
                    \/ o[1] > st[1]
                    \/ o[1] = st[1] /\ o[2] /\ ~st[2]})
    IN  [st \in {x \in heading_styles : Order(x) <= Len(level_map)} |->
            level_map[Order(st)]]

\* heading_styles, size_groups, sorted_sizes and the loop filling
\* style_to_level: a function on the styles that got a level
StyleToLevel(blocks) ==
    LET heading_styles == {blocks[i].style : i \in 1..Len(blocks)}
        sorted_sizes == SortedDesc({st[1] : st \in heading_styles})
        levelled == {st \in heading_styles :
                        \E i \in 1..Len(sorted_sizes) :
                            i <= Len(level_map) /\ sorted_sizes[i] = st[1]}
    IN  [st \in levelled |->
            level_map[CHOOSE i \in 1..Len(sorted_sizes) :
                          sorted_sizes[i] = st[1]]]

\* a slip in line 139: f"H{dot_count}"; a prefix without period keeps level
OverrideLevelDotCount(level, text) ==
    LET group1 == NumericPrefix(text)
    IN  IF group1 # <<>> /\ CountDots(group1) > 0 THEN CountDots(group1)
        ELSE level

\* the level the numeric-prefix override leaves: f"H{dot_count + 1}"
OverrideLevel(level, text) ==
    LET group1 == NumericPrefix(text)
    IN  IF group1 # <<>> THEN CountDots(group1) + 1 ELSE level

\* the loop over heading_blocks that fills final_outline
RECURSIVE EmitHeadings(_, _, _)
EmitHeadings(blocks, stl, doc_title) ==
    IF blocks = <<>> THEN <<>>
    ELSE LET block == Head(blocks)
             rest == EmitHeadings(Tail(blocks), stl, doc_title)
             text == Normalize(block.text)
         IN  IF block.style \notin DOMAIN stl THEN rest
             ELSE LET level == OverrideLevel(stl[block.style], text)
                  IN  IF level = 1 /\ block.page_num = 1 /\ text = doc_title
                      THEN rest
                      ELSE <<[text |-> text, level |-> level,
                              page_num |-> block.page_num,
                              bbox |-> block.bbox]>> \o rest

\* whether heading a sorts strictly before b by (page_num, bbox[1])
OutlineBefore(a, b) ==
    \/ a.page_num < b.page_num
    \/ a.page_num = b.page_num /\ a.bbox[2] < b.bbox[2]

\* x put into the sorted outline s, behind the entries with an equal key
RECURSIVE InsertHeading(_, _)
InsertHeading(s, x) ==
    IF s = <<>> THEN <<x>>
    ELSE IF OutlineBefore(x, Head(s)) THEN <<x>> \o s
    ELSE <<Head(s)>> \o InsertHeading(Tail(s), x)

\* sorted(final_outline, key=lambda x: (x['page_num'], x['bbox'][1])):
\* Python's sort is stable
RECURSIVE SortOutline(_)
SortOutline(xs) ==
    IF xs = <<>> THEN <<>>
    ELSE InsertHeading(SortOutline(SubSeq(xs, 1, Len(xs) - 1)), xs[Len(xs)])

\* the native-outline levels that are kept
NativeMinLevel == 1
NativeMaxLevel == 4

\* a slip in line 81: the condition on the level left out
NativeOutlineAnyLevel(entries) ==
    LET made == [i \in 1..Len(entries) |->
                    [level |-> entries[i].level,
                     text |-> Strip(entries[i].text),
                     page_num |-> entries[i].page, bbox |-> None]]
    IN  SelectSeq(made, LAMBDA h : HasAlpha(h.text))

\* the two comprehensions over toc
NativeOutline(entries) ==
    LET kept == SelectSeq(entries, LAMBDA e :
                    NativeMinLevel <= e.level /\ e.level <= NativeMaxLevel)
        made == [i \in 1..Len(kept) |->
                    [level |-> kept[i].level, text |-> Strip(kept[i].text),
                     page_num |-> kept[i].page, bbox |-> None]]
    IN  SelectSeq(made, LAMBDA h : HasAlpha(h.text))


(***************************************************************************)
(* get_outline, one action per pass.  pc is the pass about to run.         *)
(***************************************************************************)
\* lines 79-84: the embedded outline, when it yields an entry, is returned
GetOutlineNative ==
    /\ pc = "toc"
    /\ IF toc # <<>> /\ NativeOutline(toc) # <<>>
       THEN /\ outline' = NativeOutline(toc)
            /\ pc' = "done"
       ELSE /\ outline' = outline
            /\ pc' = "blocks"
    /\ UNCHANGED <<toc, docBlocks, title, all_blocks, body_style,
                   heading_blocks, style_to_level>>
    /\ UNCHANGED <<titleVars, sectionVars, rankVars, mainVars>>

\* lines 86-88
GetOutlineBlocks ==
    /\ pc = "blocks"
    /\ all_blocks' = GetTextBlocks(docBlocks)
    /\ IF all_blocks' = <<>>
       THEN /\ outline' = <<>>
            /\ pc' = "done"
       ELSE /\ outline' = outline
            /\ pc' = "body"
    /\ UNCHANGED <<toc, docBlocks, title, body_style, heading_blocks,
                   style_to_level>>
    /\ UNCHANGED <<titleVars, sectionVars, rankVars, mainVars>>

\* lines 90-92
GetOutlineBody ==
    /\ pc = "body"
    /\ body_style' = FindBodyStyle(all_blocks)
    /\ IF body_style' = None
       THEN /\ outline' = <<>>
            /\ pc' = "done"
       ELSE /\ outline' = outline
            /\ pc' = "filter"
    /\ UNCHANGED <<toc, docBlocks, title, all_blocks, heading_blocks,
                   style_to_level>>
    /\ UNCHANGED <<titleVars, sectionVars, rankVars, mainVars>>

\* lines 94-113
GetOutlineFilter ==
    /\ pc = "filter"
    /\ heading_blocks' = FilterHeadingBlocks(all_blocks, body_style)
    /\ IF heading_blocks' = <<>>
       THEN /\ outline' = <<>>
            /\ pc' = "done"
       ELSE /\ outline' = outline
            /\ pc' = "levels"
    /\ UNCHANGED <<toc, docBlocks, title, all_blocks, body_style,
                   style_to_level>>
    /\ UNCHANGED <<titleVars, sectionVars, rankVars, mainVars>>

\* lines 115-127
GetOutlineLevels ==
    /\ pc = "levels"
    /\ style_to_level' = StyleToLevel(heading_blocks)
    /\ pc' = "emit"
    /\ UNCHANGED <<toc, docBlocks, title, all_blocks, body_style,
                   heading_blocks, outline>>
    /\ UNCHANGED <<titleVars, sectionVars, rankVars, mainVars>>

\* lines 129-146
GetOutlineEmit ==
    /\ pc = "emit"
    /\ outline' = SortOutline(EmitHeadings(heading_blocks, style_to_level,
                                           title))
    /\ pc' = "done"
    /\ UNCHANGED <<toc, docBlocks, title, all_blocks, body_style,
                   heading_blocks, style_to_level>>
    /\ UNCHANGED <<titleVars, sectionVars, rankVars, mainVars>>

NextOutline ==
    \/ GetOutlineNative
    \/ GetOutlineBlocks
    \/ GetOutlineBody
    \/ GetOutlineFilter
    \/ GetOutlineLevels
    \/ GetOutlineEmit

(***************************************************************************)
(* Documents.                                                              *)
(***************************************************************************)
IdleOutline ==
    /\ toc = <<>> /\ docBlocks = <<>> /\ title = <<>> /\ all_blocks = <<>>
    /\ body_style = None /\ heading_blocks = <<>> /\ style_to_level = <<>>
    /\ outline = <<>>
IdleTitle ==
    meta_title = <<>> /\ page_count = 0 /\ top_lines = <<>> /\ title_src = "none"
IdleSections == page_heights = <<>> /\ sec_i = 0 /\ sections = <<>>
IdleRank == sims = <<>> /\ all_sections = <<>> /\ ranked = <<>> /\ rank_runs = 0
IdleMain ==
    /\ documents = <<>> /\ config_ok = FALSE /\ model_ok = FALSE /\ doc_i = 0
    /\ main_sections = <<>> /\ opened = <<>> /\ output = <<>>

\* the sequences over S of length at most n
SeqUpTo(S, n) == UNION {[1..k -> S] : k \in 0..n}

\* a decoder block: a box one unit high with its top at y0
DocBlock(text, style, num_lines, page_num, y0) ==
    [text |-> text, style |-> style, bbox |-> <<0, y0, 1, y0 + 1>>,
     page_num |-> page_num, num_lines |-> num_lines]

Words(n) == Repeat(<<"a", " ">>, n)

TextPlain == <<"a", " ", " ", "b", " ">>
TextNum1 == <<"1", "2", " ", "a", " ">>
TextNum2 == <<"1", ".", "1", " ", "a", " ">>
TextNum5 == <<"1", ".", "1", ".", "1", ".", "1", ".", "1", " ", "a", " ">>
TextDotted == <<"1", ".", " ", "a", " ">>
TextSentence == <<"a", ".", " ">>
TextBullet == <<"-", " ", "a", " ">>
TextLettered == <<"a", ")", " ", "b", " ">>
TextLeader == <<"a", ".", ".", ".", ".", "1", " ">>
TextDigits == <<"1", ".", "1", " ">>

\* where the blocks of a document lie: top-down on page 1, bottom-up on
\* page 1, or one block per page
Layouts == {"down", "up", "paged"}
PageOf(layout, i) == IF layout = "paged" THEN i ELSE 1
TopOf(layout, i, n) ==
    IF layout = "down" THEN i ELSE IF layout = "up" THEN n - i ELSE 0

\* get_outline starts on a document without embedded outline whose blocks
\* are short: headings, numbered headings and sentences
MaxDocBlocks == 2
MaxSize == 2
HeadingTexts ==
    {TextPlain, TextNum1, TextNum2, TextNum5, TextDotted, TextSentence}
Titles == {Normalize(TextPlain), Normalize(TextNum1)}

InitOutline ==
    /\ pc = "toc"
    /\ toc = <<>>
    /\ title \in Titles
    /\ \E n \in 0..MaxDocBlocks :
        \E texts \in [1..n -> HeadingTexts],
           styles \in [1..n -> (1..MaxSize) \X BOOLEAN],
           layout \in Layouts :
            docBlocks = [i \in 1..n |->
                DocBlock(texts[i], styles[i], 1, PageOf(layout, i),
                         TopOf(layout, i, n))]
    /\ all_blocks = <<>> /\ body_style = None /\ heading_blocks = <<>>
    /\ style_to_level = <<>> /\ outline = <<>>
    /\ IdleTitle /\ IdleSections /\ IdleRank /\ IdleMain

SpecOutline == InitOutline /\ [][NextOutline]_vars

\* get_outline starts on a document with an embedded outline
MaxToc == 2
MaxTocLevel == 5
TocTexts == {<<" ", "a">>, <<"1">>}
TocEntries == [level : 1..MaxTocLevel, text : TocTexts, page : {1, 2}]
NativeDocs ==
    {<<>>,
     <<DocBlock(TextPlain, <<1, FALSE>>, 1, 1, 0),
       DocBlock(TextNum2, <<2, TRUE>>, 1, 1, 1)>>,
     <<DocBlock(TextDigits, <<3, TRUE>>, 1, 1, 0),
       DocBlock(Words(31), <<1, FALSE>>, 4, 1, 1),
       DocBlock(TextLettered, <<2, FALSE>>, 1, 1, 2),
       DocBlock(TextLeader, <<2, TRUE>>, 1, 2, 0),
       DocBlock(TextBullet, <<3, FALSE>>, 1, 2, 1),
       DocBlock(TextPlain, <<1, TRUE>>, 1, 2, 3),
       DocBlock(TextNum1, <<2, FALSE>>, 1, 2, 2)>>}

InitNative ==
    /\ pc = "toc"
    /\ toc \in SeqUpTo(TocEntries, MaxToc)
    /\ title = <<>>
    /\ docBlocks \in NativeDocs
    /\ all_blocks = <<>> /\ body_style = None /\ heading_blocks = <<>>
    /\ style_to_level = <<>> /\ outline = <<>>
    /\ IdleTitle /\ IdleSections /\ IdleRank /\ IdleMain

SpecNative == InitNative /\ [][NextOutline]_vars

\* get_outline starts on a document of paragraphs and short blocks
MaxBodyBlocks == 3
BodyTexts == {TextBullet, Words(21), Words(31)}
BodyStyles == {<<1, FALSE>>, <<1, TRUE>>, <<2, FALSE>>}

InitBody ==
    /\ pc = "toc"
    /\ toc = <<>>
    /\ title = <<>>
    /\ \E n \in 0..MaxBodyBlocks :
        \E texts \in [1..n -> BodyTexts],
           styles \in [1..n -> BodyStyles],
           lines \in [1..n -> {1, 3}] :
            docBlocks = [i \in 1..n |->
                DocBlock(texts[i], styles[i], lines[i], 1, i)]
    /\ all_blocks = <<>> /\ body_style = None /\ heading_blocks = <<>>
    /\ style_to_level = <<>> /\ outline = <<>>
    /\ IdleTitle /\ IdleSections /\ IdleRank /\ IdleMain

SpecBody == InitBody /\ [][NextOutline]_vars

\* get_outline has filtered the blocks of a document that holds a paragraph
\* of size 1 and, for each style `present` names, one heading of that style
\* (sizes 2 and up), the heading `numbered` names being a numbered one
MaxLevelSizes == 5
LevelStyle(i) == <<2 + ((i - 1) \div 2), (i - 1) % 2 = 1>>

RECURSIVE LevelDoc(_, _, _)
LevelDoc(present, numbered, i) ==
    IF i > 2 * MaxLevelSizes THEN <<>>
    ELSE (IF i \notin present THEN <<>>
          ELSE <<DocBlock(IF i = numbered THEN TextNum2 ELSE TextPlain,
                          LevelStyle(i), 1, 1, i)>>)
         \o LevelDoc(present, numbered, i + 1)

InitLevels ==
    /\ pc = "levels"
    /\ toc = <<>>
    /\ title = <<>>
    /\ \E present \in SUBSET (1..(2 * MaxLevelSizes)) :
        \E numbered \in present \cup {0} :
            docBlocks = <<DocBlock(TextPlain, <<1, FALSE>>, 3, 1, 0)>>
                        \o LevelDoc(present, numbered, 1)
    /\ all_blocks = GetTextBlocks(docBlocks)
    /\ body_style = FindBodyStyle(all_blocks)
    /\ heading_blocks = FilterHeadingBlocks(all_blocks, body_style)
    /\ heading_blocks # <<>>
    /\ style_to_level = <<>> /\ outline = <<>>
    /\ IdleTitle /\ IdleSections /\ IdleRank /\ IdleMain

NextLevels == GetOutlineLevels \/ GetOutlineEmit

SpecLevels == InitLevels /\ [][NextLevels]_vars

(***************************************************************************)
(* Properties of get_outline.                                              *)
(***************************************************************************)
\* the heading block an outline entry was made from: in every document
\* above, no two blocks share page and box
BlockOf(h) ==
    CHOOSE b \in {heading_blocks[i] : i \in 1..Len(heading_blocks)} :
        b.page_num = h.page_num /\ b.bbox = h.bbox

\* the entries of the outline made from heading block b
EntriesOf(b) ==
    {i \in 1..Len(outline) :
        outline[i].page_num = b.page_num /\ outline[i].bbox = b.bbox}

\* text starts with digit groups separated by single periods, then whitespace
StartsWithNumbering(text) ==
    LET words == Split(text)
        w == words[1]
    IN  /\ Len(words) >= 2
        /\ \A k \in 1..Len(w) :
            \/ IsDigit(w[k])
            \/ /\ w[k] = "."
               /\ 1 < k /\ k < Len(w)
               /\ IsDigit(w[k - 1]) /\ IsDigit(w[k + 1])

PeriodsInPrefix(text) ==
    LET w == Split(text)[1]
    IN  Cardinality({k \in 1..Len(w) : w[k] = "."})

CandidateSizes == {heading_blocks[i].style[1] : i \in 1..Len(heading_blocks)}

\* 1 for the largest candidate size, 2 for the next, ...
SizeRank(size) == 1 + Cardinality({x \in CandidateSizes : x > size})

\* C1: on the heuristic path, among the emitted headings without a numeric
\* prefix, a heading of smaller size never has a more senior level than one
\* of larger size and headings of equal size have the same level, bold or
\* not; only the four largest candidate sizes are emitted, as H1..H4 in
\* descending order of size.
C1_LevelsFollowSizes ==
    pc = "done" =>
        /\ \A i, j \in 1..Len(outline) :
            LET a == outline[i]
                b == outline[j]
                sa == BlockOf(a).style[1]
                sb == BlockOf(b).style[1]
            IN  (~StartsWithNumbering(a.text) /\ ~StartsWithNumbering(b.text))
                => /\ sa < sb => a.level >= b.level
                   /\ sa = sb => a.level = b.level
        /\ \A i \in 1..Len(outline) :
            LET h == outline[i]
                size == BlockOf(h).style[1]
            IN  /\ SizeRank(size) <= 4
                /\ ~StartsWithNumbering(h.text) => h.level = SizeRank(size)

\* a document with five candidate sizes, the fifth not emitted, and two
\* emitted plain headings of one size, one bold and one not
C1_Witness ==
    /\ pc = "done"
    /\ Cardinality(CandidateSizes) >= 5
    /\ \E i, j \in 1..Len(outline) :
        /\ ~StartsWithNumbering(outline[i].text)
        /\ ~StartsWithNumbering(outline[j].text)
        /\ BlockOf(outline[i]).style[1] = BlockOf(outline[j]).style[1]
        /\ BlockOf(outline[i]).style[2] /\ ~BlockOf(outline[j]).style[2]
        /\ outline[i].level = 4
    /\ \E k \in 1..Len(heading_blocks) : EntriesOf(heading_blocks[k]) = {}

\* C2: a heading candidate that survived filtering and whose normalized text
\* starts with a numbering pattern is emitted with level H{periods + 1},
\* whatever its style; it is left out only when its size is not among the
\* four largest candidate sizes or when it is the title (H1, page 1, text
\* equal to the title).
C2_NumberingSetsLevel ==
    pc = "done" =>
        \A k \in 1..Len(heading_blocks) :
            LET b == heading_blocks[k]
                text == Normalize(b.text)
                level == PeriodsInPrefix(text) + 1
                dropped ==
                    \/ SizeRank(b.style[1]) > 4
                    \/ level = 1 /\ b.page_num = 1 /\ text = title
            IN  StartsWithNumbering(text) =>
                    /\ \A i \in EntriesOf(b) : outline[i].level = level
                    /\ dropped <=> EntriesOf(b) = {}

\* a numbered heading emitted with H2 although its size is the largest
C2_Witness ==
    /\ pc = "done"
    /\ \E i \in 1..Len(outline) :
        /\ StartsWithNumbering(outline[i].text)
        /\ outline[i].level = 2
        /\ SizeRank(BlockOf(outline[i]).style[1]) = 1

\* C3: every heading of the returned outline has a level among H1..H4.
C3_LevelsH1toH4 ==
    \A i \in 1..Len(outline) : outline[i].level \in 1..4

\* the toc entries that have a level 1..4 and a letter in their text
KeptToc ==
    {i \in 1..Len(toc) :
        toc[i].level \in 1..4 /\ \E k \in 1..Len(toc[i].text) :
            toc[i].text[k] \in LowerLetters \cup UpperLetters}

\* the outline is exactly the kept toc entries, in their order, without box
OutlineIsKeptToc ==
    /\ Len(outline) = Cardinality(KeptToc)
    /\ \A i \in KeptToc :
        LET k == Cardinality({j \in KeptToc : j <= i})
        IN  /\ outline[k].level = toc[i].level
            /\ outline[k].text = Strip(toc[i].text)
            /\ outline[k].page_num = toc[i].page
            /\ outline[k].bbox = <<>>

\* the heuristic passes have not run
HeuristicSkipped ==
    /\ pc \in {"toc", "done"}
    /\ all_blocks = <<>> /\ body_style = <<>> /\ heading_blocks = <<>>

\* C9 as stated: whenever the embedded outline is not empty, the heuristic
\* passes are skipped and the outline is exactly the kept native entries.
C9_NativeWheneverTocNonEmpty ==
    toc # <<>> =>
        /\ HeuristicSkipped
        /\ pc = "done" => OutlineIsKeptToc

\* C9, amended: whenever the embedded outline has an entry with level 1..4
\* and a letter in its text, the heuristic passes are skipped and the
\* outline is exactly those entries (text trimmed), in native order, each
\* without bounding box.
C9_NativeWheneverEntryKept ==
    KeptToc # {} =>
        /\ HeuristicSkipped
        /\ pc = "done" => OutlineIsKeptToc

\* a document with text blocks whose outline is one of two native entries
C9_Witness ==
    /\ pc = "done"
    /\ Len(toc) = 2 /\ Len(outline) = 1
    /\ docBlocks # <<>>
    /\ outline[1].text # toc[2].text
    /\ outline[1].level = toc[2].level

\* total word count of the substantial blocks of style st
RECURSIVE WordsOfStyle(_, _)
WordsOfStyle(I, st) ==
    IF I = {} THEN 0
    ELSE LET i == CHOOSE x \in I : TRUE
         IN  (IF all_blocks[i].style = st THEN all_blocks[i].num_words ELSE 0)
             + WordsOfStyle(I \ {i}, st)

SubstantialIdx ==
    {i \in 1..Len(all_blocks) :
        all_blocks[i].num_lines > 2 \/ all_blocks[i].num_words > 20}

BlocksOfStyle(st) == {i \in 1..Len(all_blocks) : all_blocks[i].style = st}

\* C10: the body style is the style with the highest total word count over
\* the substantial blocks; without substantial block, the style of the most
\* blocks; without blocks it is undetermined and the outline is empty.
C10_BodyStyle ==
    /\ (pc \in {"filter", "levels", "emit"}
        \/ (pc = "done" /\ all_blocks # <<>>)) =>
        IF SubstantialIdx # {}
        THEN /\ \E i \in SubstantialIdx : all_blocks[i].style = body_style
             /\ \A i \in SubstantialIdx :
                    WordsOfStyle(SubstantialIdx, all_blocks[i].style)
                        <= WordsOfStyle(SubstantialIdx, body_style)
        ELSE /\ BlocksOfStyle(body_style) # {}
             /\ \A i \in 1..Len(all_blocks) :
                    Cardinality(BlocksOfStyle(all_blocks[i].style))
                        <= Cardinality(BlocksOfStyle(body_style))
    /\ (pc = "done" /\ all_blocks = <<>>) =>
        /\ FindBodyStyle(all_blocks) = <<>>
        /\ body_style = <<>>
        /\ outline = <<>>

\* the body style has the most words although another style has more blocks
C10_Witness ==
    /\ pc = "filter"
    /\ \E i \in SubstantialIdx :
        /\ Cardinality(BlocksOfStyle(all_blocks[i].style))
            > Cardinality(BlocksOfStyle(body_style))
        /\ Cardinality(BlocksOfStyle(all_blocks[i].style) \cap SubstantialIdx)
            > Cardinality(BlocksOfStyle(body_style) \cap SubstantialIdx)


(***************************************************************************)
(* PDFOutlineExtractor._extract_title                                      *)
(***************************************************************************)
\* str.lower() of one character
Lower(c) ==
    CASE c = "A" -> "a" [] c = "B" -> "b" [] c = "C" -> "c" [] c = "D" -> "d"
      [] c = "E" -> "e" [] c = "F" -> "f" [] c = "G" -> "g" [] c = "H" -> "h"
      [] c = "I" -> "i" [] c = "J" -> "j" [] c = "K" -> "k" [] c = "L" -> "l"
      [] c = "M" -> "m" [] c = "N" -> "n" [] c = "O" -> "o" [] c = "P" -> "p"
      [] c = "Q" -> "q" [] c = "R" -> "r" [] c = "S" -> "s" [] c = "T" -> "t"
      [] c = "U" -> "u" [] c = "V" -> "v" [] c = "W" -> "w" [] c = "X" -> "x"
      [] c = "Y" -> "y" [] c = "Z" -> "z" [] OTHER -> c

\* the alternatives of (pdf|docx?|pptx?|xlsx?|cdr)
TitleExtensions ==
    {<<"p", "d", "f">>, <<"d", "o", "c">>, <<"d", "o", "c", "x">>,
     <<"p", "p", "t">>, <<"p", "p", "t", "x">>, <<"x", "l", "s">>,
     <<"x", "l", "s", "x">>, <<"c", "d", "r">>}

\* a slip in line 150: re.I left out
EndsWithExtensionSameCase(t) ==
    \E e \in TitleExtensions :
        /\ Len(t) >= Len(e) + 1
        /\ t[Len(t) - Len(e)] = "."
        /\ \A k \in 1..Len(e) : t[Len(t) - Len(e) + k] = e[k]

\* re.search(r'\.(pdf|docx?|pptx?|xlsx?|cdr)$', t, re.I), t without newline
EndsWithExtension(t) ==
    \E e \in TitleExtensions :
        /\ Len(t) >= Len(e) + 1
        /\ t[Len(t) - Len(e)] = "."
        /\ \A k \in 1..Len(e) : Lower(t[Len(t) - Len(e) + k]) = e[k]

\* needle in t
Contains(t, needle) ==
    \E i \in 0..(Len(t) - Len(needle)) :
        \A k \in 1..Len(needle) : t[i + k] = needle[k]

MicrosoftWord ==
    <<"M", "i", "c", "r", "o", "s", "o", "f", "t", " ", "W", "o", "r", "d">>

TitleMinLength == 4

\* line 150: whether the metadata title t is returned
MetadataTitleAccepted(t) ==
    /\ Len(t) > TitleMinLength
    /\ ~EndsWithExtension(t)
    /\ ~Contains(t, MicrosoftWord)

\* round(n / d): Python rounds a half to the even neighbour
RoundHalfEven(n, d) ==
    LET q == n \div d
        r == n % d
    IN  IF 2 * r < d THEN q
        ELSE IF 2 * r > d THEN q + 1
        ELSE IF q % 2 = 0 THEN q ELSE q + 1

RECURSIVE SumSizes(_)
SumSizes(spans) ==
    IF spans = <<>> THEN 0 ELSE Head(spans).size + SumSizes(Tail(spans))

\* line 160: the stripped, non-empty span texts of a line joined by spaces
LineText(spans) ==
    LET stripped == [i \in 1..Len(spans) |-> Strip(spans[i].text)]
    IN  Strip(Join(SelectSeq(stripped, LAMBDA t : t # <<>>)))

TitleLineMaxWords == 20

\* lines 156-164: the texts of the lines whose rounded average size is size
RECURSIVE LinesOfSize(_, _)
LinesOfSize(lines, size) ==
    IF lines = <<>> THEN <<>>
    ELSE LET spans == Head(lines)
             line_text == LineText(spans)
             rest == LinesOfSize(Tail(lines), size)
         IN  IF /\ line_text # <<>>
                /\ HasAlpha(line_text)
                /\ Len(Split(line_text)) < TitleLineMaxWords
                /\ spans # <<>>
                /\ RoundHalfEven(SumSizes(spans), Len(spans)) = size
             THEN <<line_text>> \o rest
             ELSE rest

\* the keys of font_sizes
TitleSizes(lines) ==
    {size \in {RoundHalfEven(SumSizes(lines[i]), Len(lines[i])) :
                  i \in {k \in 1..Len(lines) : lines[k] # <<>>}} :
        LinesOfSize(lines, size) # <<>>}

\* lines 148-168: the title and the return statement that produced it
ExtractTitle(meta, pages, lines) ==
    LET t == Strip(meta)
        sizes == TitleSizes(lines)
    IN  IF t # <<>> /\ MetadataTitleAccepted(t)
        THEN [title |-> t, src |-> "metadata"]
        ELSE IF pages = 0 THEN [title |-> <<>>, src |-> "no pages"]
        ELSE IF sizes # {}
        THEN [title |-> Join(LinesOfSize(lines,
                                CHOOSE m \in sizes : \A x \in sizes : x <= m)),
              src |-> "lines"]
        ELSE [title |-> <<>>, src |-> "nothing"]

ExtractTitleStep ==
    /\ pc = "title"
    /\ LET r == ExtractTitle(meta_title, page_count, top_lines)
       IN  /\ title' = r.title
           /\ title_src' = r.src
    /\ pc' = "done"
    /\ UNCHANGED <<toc, docBlocks, all_blocks, body_style, heading_blocks,
                   style_to_level, outline, meta_title, page_count, top_lines>>
    /\ UNCHANGED <<sectionVars, rankVars, mainVars>>

Span(text, size) == [text |-> text, size |-> size]

MetaTitles ==
    {<<>>,
     <<"a", ".", "p", "d", "f">>,
     <<"a", "b", ".", "P", "d", "F">>,
     <<" ", "a", ".", "d", "o", "c", "x", " ">>,
     <<"a", ".", "d", "o", "c">>,
     <<"a", ".", "p", "p", "t">>,
     <<"a", ".", "x", "l", "s">>,
     <<"a", "b", "c", "d">>,
     <<" ", "a", "b", "c", "d", "e", " ">>,
     <<"a", ".", "p", "d", "f", "s">>,
     MicrosoftWord \o <<" ", "-", " ", "a">>}

TitleLines ==
    {<<Span(<<"a", ".", "p", "d", "f">>, 3)>>,
     <<Span(<<"b">>, 2)>>,
     <<Span(<<" ", "b", " ">>, 2), Span(<<" ">>, 3)>>,
     <<Span(<<"1">>, 4)>>,
     <<Span(<<"b">>, 3), Span(<<"c", ".", "d", "o", "c">>, 4)>>,
     <<Span(Words(20), 4)>>}

MaxTitleLines == 2

InitTitle ==
    /\ pc = "title"
    /\ meta_title \in MetaTitles
    /\ page_count \in {0, 1}
    /\ top_lines \in SeqUpTo(TitleLines, MaxTitleLines)
    /\ page_count = 0 => top_lines = <<>>
    /\ title_src = "none"
    /\ IdleOutline /\ IdleSections /\ IdleRank /\ IdleMain

SpecTitle == InitTitle /\ [][ExtractTitleStep]_vars

\* t ends, in any letter case, in one of the named extensions
HasSuffix(t, suffix) ==
    /\ Len(t) >= Len(suffix)
    /\ \A k \in 1..Len(suffix) :
        Lower(t[Len(t) - Len(suffix) + k]) = suffix[k]

EndsInFileExtension(t) ==
    \/ HasSuffix(t, <<".", "p", "d", "f">>)
    \/ HasSuffix(t, <<".", "d", "o", "c">>)
    \/ HasSuffix(t, <<".", "d", "o", "c", "x">>)
    \/ HasSuffix(t, <<".", "p", "p", "t">>)
    \/ HasSuffix(t, <<".", "x", "l", "s">>)

\* C7 as stated: the returned title never ends in a file extension.
C7_TitleNeverEndsInExtension ==
    pc = "done" => ~EndsInFileExtension(title)

\* C7, amended: a title taken from the metadata never ends, in any letter
\* case, in .pdf, .doc, .docx, .ppt or .xls; a title taken from the lines
\* of page 1 is not checked.
C7_MetadataTitleHasNoExtension ==
    (pc = "done" /\ title_src = "metadata") => ~EndsInFileExtension(title)

\* a metadata title with a period in it was accepted
C7_Witness ==
    /\ pc = "done"
    /\ title_src = "metadata"
    /\ \E k \in 1..Len(title) : title[k] = "."


(***************************************************************************)
(* DocumentSectionizer.get_sections.  Pages are 0-based as in the code.    *)
(* The text of a section is what the decoder returns for its clip          *)
(* rectangles, so a section is kept with the rectangles it was cut by.     *)
(***************************************************************************)
HasBox(heading) == heading.bbox # <<>>

\* lines 182-183: (start_page, start_y)
SectionStart(heading) == <<heading.page_num - 1, heading.bbox[4]>>

\* a slip in line 187: next_heading['bbox'][3], the bottom of the next box
SectionEndAtBottom(headings, i, heights) ==
    IF i + 1 <= Len(headings) /\ HasBox(headings[i + 1])
    THEN <<headings[i + 1].page_num - 1, headings[i + 1].bbox[4]>>
    ELSE <<Len(heights) - 1, heights[Len(heights)]>>

\* lines 184-190: (end_page, end_y)
SectionEnd(headings, i, heights) ==
    IF i + 1 <= Len(headings) /\ HasBox(headings[i + 1])
    THEN <<headings[i + 1].page_num - 1, headings[i + 1].bbox[2]>>
    ELSE <<Len(heights) - 1, heights[Len(heights)]>>

\* lines 192-198: the clip rectangles <<page, y0, y1>> text is taken from
RECURSIVE SectionClips(_, _, _, _)
SectionClips(start, end, heights, page_num) ==
    IF page_num > end[1] THEN <<>>
    ELSE LET clip_y_start == IF page_num = start[1] THEN start[2] ELSE 0
             clip_y_end ==
                 IF page_num = end[1] THEN end[2] ELSE heights[page_num + 1]
         IN  (IF clip_y_start < clip_y_end
              THEN <<<<page_num, clip_y_start, clip_y_end>>>> ELSE <<>>)
             \o SectionClips(start, end, heights, page_num + 1)

\* one iteration of the loop over self.outline
SectionStep ==
    /\ pc = "sections"
    /\ sec_i <= Len(outline)
    /\ LET heading == outline[sec_i]
           start == SectionStart(heading)
           end == SectionEnd(outline, sec_i, page_heights)
       IN  sections' =
               IF ~HasBox(heading) THEN sections
               ELSE Append(sections,
                        [section_title |-> heading.text,
                         page_number |-> heading.page_num,
                         start |-> start, end |-> end,
                         clips |-> SectionClips(start, end, page_heights,
                                                start[1])])
    /\ sec_i' = sec_i + 1
    /\ UNCHANGED <<pc, page_heights, outlineVars, titleVars, rankVars,
                   mainVars>>

\* line 207
SectionsReturn ==
    /\ pc = "sections"
    /\ sec_i > Len(outline)
    /\ pc' = "done"
    /\ UNCHANGED <<outlineVars, titleVars, sectionVars, rankVars, mainVars>>

NextSections == SectionStep \/ SectionsReturn

MaxPages == 2
MaxY == 3
MaxHeadings == 3

\* the boxes of a page: top above bottom, both on the page
HeadingPlaces(pages) ==
    {p \in (1..pages) \X (0..MaxY) \X (0..MaxY) : p[2] < p[3]}

\* self.outline as get_outline returns it: sorted by page and top when it
\* comes from the blocks, without boxes when it is the embedded outline
InitSections ==
    /\ pc = "sections"
    /\ sec_i = 1
    /\ sections = <<>>
    /\ \E pages \in 1..MaxPages :
        /\ page_heights = [p \in 1..pages |-> MaxY]
        /\ \E places \in SeqUpTo(HeadingPlaces(pages), MaxHeadings),
              boxed \in BOOLEAN :
            /\ \A i, j \in 1..Len(places) :
                i < j => \/ places[i][1] < places[j][1]
                         \/ /\ places[i][1] = places[j][1]
                            /\ places[i][2] <= places[j][2]
            /\ outline = [i \in 1..Len(places) |->
                    [level |-> 1, text |-> <<"a">>,
                     page_num |-> places[i][1],
                     bbox |-> IF boxed
                              THEN <<0, places[i][2], 1, places[i][3]>>
                              ELSE <<>>]]
    /\ toc = <<>> /\ docBlocks = <<>> /\ title = <<>> /\ all_blocks = <<>>
    /\ body_style = None /\ heading_blocks = <<>> /\ style_to_level = <<>>
    /\ IdleTitle /\ IdleRank /\ IdleMain

SpecSections == InitSections /\ [][NextSections]_vars

AllBoxed == \A i \in 1..Len(outline) : outline[i].bbox # <<>>

DocumentEnd == <<Len(page_heights) - 1, page_heights[Len(page_heights)]>>

\* C4 as stated: each section ends exactly where the next one starts and the
\* last section ends at the bottom of the last page.
C4_SectionsAbut ==
    (pc = "done" /\ AllBoxed) =>
        /\ \A i \in 1..(Len(sections) - 1) :
            sections[i].end = sections[i + 1].start
        /\ sections # <<>> => sections[Len(sections)].end = DocumentEnd

\* C4, amended: section i ends at the top of heading i+1 and section i+1
\* starts at the bottom of that heading, on the same page: between the two
\* lies exactly the heading's own box; the last section ends at the bottom
\* of the last page.
C4_SectionsAbutHeadingBox ==
    (pc = "done" /\ AllBoxed) =>
        /\ Len(sections) = Len(outline)
        /\ \A i \in 1..(Len(sections) - 1) :
            /\ sections[i].end[1] = sections[i + 1].start[1]
            /\ sections[i].end[2] = outline[i + 1].bbox[2]
            /\ sections[i + 1].start[2] - sections[i].end[2]
                = outline[i + 1].bbox[4] - outline[i + 1].bbox[2]
        /\ sections # <<>> => sections[Len(sections)].end = DocumentEnd

\* three sections, the second on a later page than the first
C4_Witness ==
    /\ pc = "done"
    /\ Len(sections) = 3
    /\ sections[1].end[1] > sections[1].start[1]
    /\ Len(sections[1].clips) = 2


(***************************************************************************)
(* SemanticRanker.rank_sections.  The embedding model is deterministic, so *)
(* the similarity of a section with the query is a function of its         *)
(* content; a section's id stands for the identity of its dict.            *)
(***************************************************************************)
\* x put into s, sorted by descending score, behind the equal scores
RECURSIVE InsertByScore(_, _)
InsertByScore(s, x) ==
    IF s = <<>> THEN <<x>>
    ELSE IF x.relevance_score > Head(s).relevance_score THEN <<x>> \o s
    ELSE <<Head(s)>> \o InsertByScore(Tail(s), x)

\* sorted(xs, key=lambda x: x['relevance_score'], reverse=True): stable,
\* equal scores keep their order also under reverse=True
RECURSIVE SortByScore(_)
SortByScore(xs) ==
    IF xs = <<>> THEN <<>>
    ELSE InsertByScore(SortByScore(SubSeq(xs, 1, Len(xs) - 1)), xs[Len(xs)])

\* lines 225-226: each section gets its similarity as relevance_score
Scored(secs, similarity) ==
    [i \in 1..Len(secs) |->
        [id |-> secs[i].id, content |-> secs[i].content,
         relevance_score |-> similarity[secs[i].content]]]

\* x put into s, sorted by ascending score, behind the equal scores
RECURSIVE InsertByScoreAscending(_, _)
InsertByScoreAscending(s, x) ==
    IF s = <<>> THEN <<x>>
    ELSE IF x.relevance_score < Head(s).relevance_score THEN <<x>> \o s
    ELSE <<Head(s)>> \o InsertByScoreAscending(Tail(s), x)

RECURSIVE SortByScoreAscending(_)
SortByScoreAscending(xs) ==
    IF xs = <<>> THEN <<>>
    ELSE InsertByScoreAscending(
            SortByScoreAscending(SubSeq(xs, 1, Len(xs) - 1)), xs[Len(xs)])

\* a slip in line 227: sorted(...)[::-1], which also reverses equal scores
RankSectionsReversed(secs, similarity) ==
    IF secs = <<>> THEN <<>>
    ELSE LET up == SortByScoreAscending(Scored(secs, similarity))
         IN  [i \in 1..Len(up) |-> up[Len(up) + 1 - i]]

\* lines 219-227, on a list of sections
RankSections(secs, similarity) ==
    IF secs = <<>> THEN <<>> ELSE SortByScore(Scored(secs, similarity))

MaxRankRuns == 2

\* rank_sections runs: first on all_sections, then on what it returned
RankStep ==
    /\ pc = "rank_sections"
    /\ rank_runs < MaxRankRuns
    /\ IF rank_runs = 0
       THEN /\ ranked' = RankSections(all_sections, sims)
            /\ all_sections' = Scored(all_sections, sims)
       ELSE /\ ranked' = RankSections(ranked, sims)
            /\ all_sections' = all_sections
    /\ rank_runs' = rank_runs + 1
    /\ UNCHANGED <<pc, sims, outlineVars, titleVars, sectionVars, mainVars>>

MaxSections == 3
Contents == {"hiking", "tax law", "food"}
Scores == 0..2

InitRank ==
    /\ pc = "rank_sections"
    /\ sims \in [Contents -> Scores]
    /\ \E cs \in SeqUpTo(Contents, MaxSections) :
        all_sections = [i \in 1..Len(cs) |-> [id |-> i, content |-> cs[i]]]
    /\ ranked = <<>>
    /\ rank_runs = 0
    /\ IdleOutline /\ IdleTitle /\ IdleSections /\ IdleMain

SpecRank == InitRank /\ [][RankStep]_vars

\* where the section with this id stands in the input
InputIndex(id) == CHOOSE i \in 1..Len(all_sections) : all_sections[i].id = id

\* C5: rank_sections returns all input sections by descending score, equal
\* scores in input order, and returns the same order when run again on its
\* own output.
C5_RankingStableAndIdempotent ==
    rank_runs >= 1 =>
        /\ Len(ranked) = Len(all_sections)
        /\ \A i \in 1..Len(all_sections) :
            \E k \in 1..Len(ranked) :
                /\ ranked[k].id = all_sections[i].id
                /\ ranked[k].content = all_sections[i].content
                /\ ranked[k].relevance_score = sims[all_sections[i].content]
        /\ \A k, m \in 1..Len(ranked) :
            k < m =>
                \/ ranked[k].relevance_score > ranked[m].relevance_score
                \/ /\ ranked[k].relevance_score = ranked[m].relevance_score
                   /\ InputIndex(ranked[k].id) < InputIndex(ranked[m].id)

\* the second run returned three sections, two of equal score behind the
\* input's last section
C5_Witness ==
    /\ rank_runs = 2
    /\ Len(ranked) = 3
    /\ ranked[1].id = 3
    /\ ranked[2].relevance_score = ranked[3].relevance_score
    /\ ranked[2].content # ranked[3].content

(***************************************************************************)
(* main: the loop over the configured documents, the ranker, the output.   *)
(* A document is what processing it does: "missing" (no such file),        *)
(* "unreadable" (fitz.open raises), "bad_outline" (the outline extractor   *)
(* raises), "bad_sections" (get_sections raises) or "ok" with nsec         *)
(* sections.                                                               *)
(***************************************************************************)
DocKinds ==
    {[kind |-> "missing", nsec |-> 0], [kind |-> "unreadable", nsec |-> 0],
     [kind |-> "bad_outline", nsec |-> 0],
     [kind |-> "bad_sections", nsec |-> 0]}
    \cup {[kind |-> "ok", nsec |-> n] : n \in 0..2}

\* lines 256-259: the sections of document d, tagged with the document
DocSections(d, doc) == [k \in 1..doc.nsec |-> [document |-> d, section |-> k]]

\* lines 238-247
ReadConfig ==
    /\ pc = "config"
    /\ IF config_ok
       THEN /\ pc' = "documents"
            /\ doc_i' = 1
       ELSE /\ pc' = "returned"
            /\ doc_i' = doc_i
    /\ UNCHANGED <<documents, config_ok, model_ok, main_sections, opened,
                   output>>
    /\ UNCHANGED <<outlineVars, titleVars, sectionVars, rankVars>>

\* a slip in lines 255-262: no try/except, a failing document ends the run
ProcessDocumentUncaught ==
    /\ pc = "documents"
    /\ doc_i <= Len(documents)
    /\ LET doc == documents[doc_i]
       IN  /\ opened' = IF doc.kind = "missing" THEN opened
                        ELSE Append(opened, doc_i)
           /\ main_sections' =
                IF doc.kind = "ok"
                THEN main_sections \o DocSections(doc_i, doc)
                ELSE main_sections
           /\ IF doc.kind \in {"ok", "missing"}
              THEN /\ pc' = pc
                   /\ doc_i' = doc_i + 1
              ELSE /\ pc' = "aborted"
                   /\ doc_i' = doc_i
    /\ UNCHANGED <<documents, config_ok, model_ok, output>>
    /\ UNCHANGED <<outlineVars, titleVars, sectionVars, rankVars>>

\* lines 249-262: one iteration of the loop over pdf_paths
ProcessDocument ==
    /\ pc = "documents"
    /\ doc_i <= Len(documents)
    /\ LET doc == documents[doc_i]
       IN  /\ opened' = IF doc.kind = "missing" THEN opened
                        ELSE Append(opened, doc_i)
           /\ main_sections' =
                IF doc.kind = "ok"
                THEN main_sections \o DocSections(doc_i, doc)
                ELSE main_sections
    /\ doc_i' = doc_i + 1
    /\ UNCHANGED <<pc, documents, config_ok, model_ok, output>>
    /\ UNCHANGED <<outlineVars, titleVars, sectionVars, rankVars>>

\* a slip in lines 214-217: the exception swallowed, the run goes on
LoadRankerIgnoringFailure ==
    /\ pc = "documents"
    /\ doc_i > Len(documents)
    /\ pc' = "ranker"
    /\ UNCHANGED <<documents, config_ok, model_ok, doc_i, main_sections,
                   opened, output>>
    /\ UNCHANGED <<outlineVars, titleVars, sectionVars, rankVars>>

\* line 263, SemanticRanker.__init__: the IOError is not caught
LoadRanker ==
    /\ pc = "documents"
    /\ doc_i > Len(documents)
    /\ pc' = IF model_ok THEN "ranker" ELSE "aborted"
    /\ UNCHANGED <<documents, config_ok, model_ok, doc_i, main_sections,
                   opened, output>>
    /\ UNCHANGED <<outlineVars, titleVars, sectionVars, rankVars>>

TopSections == 10
TopAnalysis == 5

\* lines 264-279: rank, build the output record, write it
RankAndWrite ==
    /\ pc = "ranker"
    /\ output' = Append(output,
            [input_documents |-> Len(documents),
             extracted_sections |->
                IF Len(main_sections) < TopSections THEN Len(main_sections)
                ELSE TopSections,
             subsection_analysis |->
                IF Len(main_sections) < TopAnalysis THEN Len(main_sections)
                ELSE TopAnalysis])
    /\ pc' = "done"
    /\ UNCHANGED <<documents, config_ok, model_ok, doc_i, main_sections,
                   opened>>
    /\ UNCHANGED <<outlineVars, titleVars, sectionVars, rankVars>>

NextMain == ReadConfig \/ ProcessDocument \/ LoadRanker \/ RankAndWrite

MaxDocuments == 3

InitMain ==
    /\ pc = "config"
    /\ documents \in SeqUpTo(DocKinds, MaxDocuments)
    /\ config_ok \in BOOLEAN
    /\ model_ok \in BOOLEAN
    /\ doc_i = 0
    /\ main_sections = <<>>
    /\ opened = <<>>
    /\ output = <<>>
    /\ IdleOutline /\ IdleTitle /\ IdleSections /\ IdleRank

SpecMain == InitMain /\ [][NextMain]_vars

\* the sections of the first n documents that were processed without failure
RECURSIVE Collected(_)
Collected(n) ==
    IF n = 0 THEN <<>>
    ELSE Collected(n - 1)
         \o (IF documents[n].kind = "ok"
             THEN [k \in 1..documents[n].nsec |->
                      [document |-> n, section |-> k]]
             ELSE <<>>)

\* C6: a document that fails contributes no sections, leaves the sections
\* collected before it unchanged, and the documents after it are processed:
\* the loop always reaches the end of the list and the collected sections
\* are those of the documents that did not fail, in order.
C6_FailureIsConfined ==
    /\ pc = "documents" =>
        /\ doc_i \in 1..(Len(documents) + 1)
        /\ main_sections = Collected(doc_i - 1)
    /\ pc \in {"ranker", "aborted", "done"} =>
        /\ doc_i = Len(documents) + 1
        /\ main_sections = Collected(Len(documents))

\* a run that ended with the sections of the documents before and after one
\* whose sectionizing failed
C6_Witness ==
    /\ pc = "done"
    /\ Len(documents) = 3
    /\ documents[1].kind = "ok" /\ documents[1].nsec = 1
    /\ documents[2].kind = "bad_sections"
    /\ documents[3].kind = "ok" /\ documents[3].nsec = 2
    /\ Len(main_sections) = 3
    /\ opened = <<1, 2, 3>>

\* C8 as stated: when the embedding model cannot be loaded the run aborts
\* before any document is decoded or sectionized and writes no output.
C8_AbortsBeforeDocuments ==
    ~model_ok => (opened = <<>> /\ main_sections = <<>> /\ output = <<>>)

\* C8, amended: when the embedding model cannot be loaded the run aborts
\* and writes no output, but only when the ranker is constructed, after
\* every configured document has been processed.
C8_AbortsAfterDocuments ==
    ~model_ok =>
        /\ output = <<>>
        /\ pc \notin {"ranker", "done"}
        /\ pc = "aborted" =>
            /\ doc_i = Len(documents) + 1
            /\ main_sections = Collected(Len(documents))

\* the run aborted with documents decoded and sections collected
C8_Witness ==
    /\ pc = "aborted"
    /\ ~model_ok
    /\ opened # <<>>
    /\ main_sections # <<>>

====
